---- MODULE Spec2Model ----
(***************************************************************************)
(* VideoAudioTuner (volume_tuner.py): the real-time audio engine, the      *)
(* FFmpeg PCM reader thread and the App transport handlers, as one state   *)
(* machine.                                                                *)
(*                                                                         *)
(* Numbers.  The program computes in floating point; the model computes in *)
(* fixed point.  A linear quantity (sample, gain, envelope, coefficient)   *)
(* v is the integer round(v * ONE).  A level in dB is an integer number of *)
(* tenths of a dB (-420 is -42.0 dB).  The expander ratio is an integer    *)
(* number of thousandths (4000 is 4.0).  Products and quotients round to   *)
(* the nearest unit.  Samples are finite numbers (no NaN, no infinity).    *)
(***************************************************************************)
EXTENDS Integers, Sequences, FiniteSets, TLC

\* ------------------------------------------------------------------ bounds
\* Samples per PCM block (the program's BLOCK is 1024).
BlockLen == 2
\* Longest decoded file, in blocks, of the transport specification.
MaxFrames == 2
\* FFmpegPCMReader threads ever started in one run.
MaxReaders == 2
\* Setter calls in one run of the tuning specification.
MaxSets == 2
\* Blocks fed to the gate in SpecGate.
MaxBlocks == 3
\* Files ever put in the inbox in one run of the watcher.
MaxFiles == 3
\* Largest size of an inbox file, in units a copy writes at a time.
MaxSize == 2

\* --------------------------------------------------------------- constants
\* 1.0 in fixed point.
ONE == 10000
\* queue.Queue(maxsize=64)
QueueMax == 64
\* The five bands of eq_points.
NBands == 5

\* ---------------------------------------------------------------- numerics
Abs(x) == IF x < 0 THEN -x ELSE x

Max(a, b) == IF a >= b THEN a ELSE b

Min(a, b) == IF a <= b THEN a ELSE b

\* a / b rounded to the nearest integer (b > 0).
RDiv(a, b) == (a + b \div 2) \div b

\* The fixed-point product a * b / ONE, rounded; exact for |b| beyond ONE.
Mul(a, b) == a * (b \div ONE) + RDiv(a * (b % ONE), ONE)

RECURSIVE Pow10(_)
Pow10(n) == IF n = 0 THEN 1 ELSE 10 * Pow10(n - 1)

\* 10^(a/20) for a = 0..19 whole dB, and 10^(b/200) for b = 0..9 tenths.
T20 == <<10000, 11220, 12589, 14125, 15849, 17783, 19953, 22387, 25119, 28184,
         31623, 35481, 39811, 44668, 50119, 56234, 63096, 70795, 79433, 89125>>

T200 == <<10000, 10116, 10233, 10351, 10471, 10593, 10715, 10839, 10965, 11092>>

\* db_to_gain(db) = 10^(db/20), db in tenths of a dB.
db_to_gain(db) ==
    LET q == db \div 200
        r == db % 200
        m == RDiv(T20[(r \div 10) + 1] * T200[(r % 10) + 1], ONE)
    IN  IF q >= 0 THEN m * Pow10(q) ELSE RDiv(m, Pow10(-q))

\* The largest level d in lo..hi with db_to_gain(d) <= x.
RECURSIVE LogSearch(_, _, _)
LogSearch(x, lo, hi) ==
    IF lo >= hi THEN lo
    ELSE LET mid == (lo + hi + 1) \div 2
         IN  IF db_to_gain(mid) <= x THEN LogSearch(x, mid, hi)
             ELSE LogSearch(x, lo, mid - 1)

\* 20 * log10(max(env, 1e-8)) in tenths of a dB: -160 dB at and below 1e-8.
EnvDb(e) == IF e <= 0 THEN -1600 ELSE LogSearch(e, -1600, 400)

\* --------------------------------------------------------- Biquad (RBJ)
\* sin(w0) and cos(w0), w0 = 2*pi*f0/APP_SR, for f0 = 100, 300, 1000, 3000,
\* 8000 Hz at APP_SR = 48000.
SinW0 == <<131, 393, 1305, 3827, 8660>>

CosW0 == <<9999, 9992, 9914, 9239, 5000>>

\* Q of every band of eq_points, 1.0.
BandQ == <<ONE, ONE, ONE, ONE, ONE>>

\* Biquad.__init__: the pass-through section with cleared state.
BiquadInit == [b0 |-> ONE, b1 |-> 0, b2 |-> 0, a1 |-> 0, a2 |-> 0, z1 |-> 0, z2 |-> 0]

\* Biquad.set_peaking_eq: the five normalised coefficients of band k (1..5)
\* at gain_db; z1 and z2 are not touched.
set_peaking_eq(biq, k, gain_db) ==
    LET A     == db_to_gain(gain_db \div 2)
        alpha == RDiv(SinW0[k] * ONE, 2 * BandQ[k])
        cosw  == CosW0[k]
        b0 == ONE + Mul(alpha, A)
        b1 == -2 * cosw
        b2 == ONE - Mul(alpha, A)
        a0 == ONE + RDiv(alpha * ONE, A)
        a1 == -2 * cosw
        a2 == ONE - RDiv(alpha * ONE, A)
    IN  [biq EXCEPT !.b0 = RDiv(b0 * ONE, a0), !.b1 = RDiv(b1 * ONE, a0),
                    !.b2 = RDiv(b2 * ONE, a0), !.a1 = RDiv(a1 * ONE, a0),
                    !.a2 = RDiv(a2 * ONE, a0)]

\* Biquad.process_inplace from sample i on: the filtered block and the
\* state left in z1, z2.
RECURSIVE BiquadRun(_, _, _, _, _)
BiquadRun(biq, x, i, z1, z2) ==
    IF i > Len(x) THEN [x |-> x, z1 |-> z1, z2 |-> z2]
    ELSE LET w == x[i] - Mul(biq.a1, z1) - Mul(biq.a2, z2)
             y == Mul(biq.b0, w) + Mul(biq.b1, z1) + Mul(biq.b2, z2)
         IN  BiquadRun(biq, [x EXCEPT ![i] = y], i + 1, w, z1)

process_inplace(biq, x) == BiquadRun(biq, x, 1, biq.z1, biq.z2)

\* ------------------------------------------------------- gate / expander
\* attack_open and release_close of _update_time_consts:
\* exp(-1/(APP_SR*0.003)) and exp(-1/(APP_SR*0.120)).
attack_open == 9931

release_close == 9998

\* Lines 322-324: the target of the expander branch for the level env_db.
ExpanderTarget(loc, env_db) ==
    LET out_db  == loc.open_thr + RDiv((env_db - loc.open_thr) * 1000, loc.ratio)
        gain_db == out_db - env_db
    IN  Max(loc.floor_lin, db_to_gain(gain_db))

\* The loop body with a dead zone that closes: target = floor_lin there.
GateSample_DeadZoneCloses(loc, mode, xi) ==
    LET s      == Abs(xi)
        env    == IF s > loc.env
                  THEN Mul(loc.atk, loc.env) + Mul(ONE - loc.atk, s)
                  ELSE Mul(loc.rel, loc.env) + Mul(ONE - loc.rel, s)
        target == IF EnvDb(env) >= loc.open_thr THEN ONE ELSE loc.floor_lin
        g      == IF target > loc.g
                  THEN RDiv(9 * loc.g + target, 10)
                  ELSE RDiv(98 * loc.g + 2 * target, 100)
    IN  [env |-> env, g |-> g, y |-> Mul(g, xi)]

\* One iteration of the sample loop of _gate_or_expander.  loc holds the
\* values read before the loop (atk, rel, open_thr, close_thr, floor_lin,
\* ratio) and the running env and g; mode is self.gate_mode as read in this
\* iteration.  Gives the new env and g and the scaled sample.
GateSample(loc, mode, xi) ==
    LET s      == Abs(xi)
        env    == IF s > loc.env
                  THEN Mul(loc.atk, loc.env) + Mul(ONE - loc.atk, s)
                  ELSE Mul(loc.rel, loc.env) + Mul(ONE - loc.rel, s)
        env_db == EnvDb(env)
        target == IF env_db >= loc.open_thr THEN ONE
                  ELSE IF env_db <= loc.close_thr THEN loc.floor_lin
                  ELSE IF mode = "Gate" THEN loc.g
                  ELSE ExpanderTarget(loc, env_db)
        g      == IF target > loc.g
                  THEN RDiv(9 * loc.g + target, 10)
                  ELSE RDiv(98 * loc.g + 2 * target, 100)
    IN  [env |-> env, g |-> g, y |-> Mul(g, xi)]

\* np.clip(buf, -1.0, 1.0) on one sample.
Clip(v) == Max(-ONE, Min(ONE, v))


\* ------------------------------------------------------------------- state
VARIABLES
    audio,      \* the AudioEngine object (App.audio)
    app,        \* App.reader, current_path, monitor_running, settings.data
    ctl,        \* the Tk thread: the transport handler it is in
    rd,         \* the FFmpegPCMReader threads, by number
    cb,         \* the stream's callback thread: its position and locals
    outdata,    \* the block last handed to the output device
    pa,         \* the output streams sounddevice holds open
    file,       \* the blocks FFmpeg decodes from current_path
    nput,       \* q.put calls completed (numbers the items of q)
    nsets,      \* setter calls made
    last,       \* the last engine call made by a control handler
    ended,      \* the callback has dequeued None or an error tuple since the
                \* stream was opened
    w           \* the headless watcher: its main_loop, settings.json on
                \* disk and the inbox folder

vars ==
    <<audio, app, ctl, rd, cb, outdata, pa, file, nput, nsets, last, ended, w>>

Readers == 1..MaxReaders

Bands == 1..NBands

\* A settings.json record as SettingsManager.load leaves it.
DefaultSettings ==
    [volume_db |-> 0, eq |-> <<0, 0, 0, 0, 0>>, gate_enabled |-> FALSE,
     gate_mode |-> "Gate", open_thr_db |-> -420, close_thr_db |-> -480,
     floor_db |-> -400, expander_ratio |-> 4000]

\* The persisted records the runs start from.
SettingsSet ==
    { DefaultSettings,
      [DefaultSettings EXCEPT !.gate_enabled = TRUE, !.volume_db = 60,
                              !.eq = <<60, 0, 0, 0, -120>>] }

\* ---------------------------------------------------------- settings.json
\* self.data of SettingsManager.__init__ before load().
SettingsManagerInit ==
    [volume_db |-> 0, eq |-> <<0, 0, 0, 0, 0>>, gate_enabled |-> FALSE,
     gate_mode |-> "Gate", open_thr_db |-> -420, close_thr_db |-> -480,
     floor_db |-> -400, expander_ratio |-> 4000, presets |-> <<>>]

\* data of the watcher's load_settings before the file is read.
WatcherDefaults ==
    [volume_db |-> 0, eq |-> <<0, 0, 0, 0, 0>>, gate_enabled |-> FALSE,
     gate_mode |-> "Gate", open_thr_db |-> -420, close_thr_db |-> -480,
     floor_db |-> -400, expander_ratio |-> 4000]

\* The settings fields.
Fields == DOMAIN DefaultSettings

\* settings.json on disk: missing, unreadable (read_text raises),
\* unparsable (json.loads raises), or a JSON object rec.
NoRecord == [k \in {} |-> 0]

SettingsFile(kind, rec) == [kind |-> kind, rec |-> rec]

\* dict.update: the keys of loaded are set in data, the others kept.
Update(data, loaded) ==
    [k \in DOMAIN data \cup DOMAIN loaded |->
        IF k \in DOMAIN loaded THEN loaded[k] ELSE data[k]]

\* SettingsManager.load on the data of __init__.
SettingsManagerLoad(f) ==
    IF f.kind = "record" THEN Update(SettingsManagerInit, f.rec)
    ELSE SettingsManagerInit

\* A loader that takes a record only when it is complete.
load_settings_AllOrNothing(f) ==
    IF f.kind = "record" /\ Fields \subseteq DOMAIN f.rec
    THEN Update(WatcherDefaults, f.rec)
    ELSE WatcherDefaults

\* load_settings of the watcher.
load_settings(f) ==
    IF f.kind = "record" THEN Update(WatcherDefaults, f.rec)
    ELSE WatcherDefaults

\* Values a tuned record holds, all different from the defaults.
TunedSettings ==
    [volume_db |-> 60, eq |-> <<60, 0, 0, 0, -120>>, gate_enabled |-> TRUE,
     gate_mode |-> "Expander", open_thr_db |-> -300, close_thr_db |-> -600,
     floor_db |-> -200, expander_ratio |-> 2000]

\* The files the watcher runs start from: the failures, and the records
\* that hold no field, one field, all fields but one, or all fields.
SettingsFiles ==
    { SettingsFile(k, NoRecord) : k \in {"missing", "unreadable", "unparsable"} }
    \cup { SettingsFile("record", [k \in S |-> TunedSettings[k]]) :
             S \in { T \in SUBSET Fields :
                        Cardinality(T) <= 1 \/ Cardinality(T) >= 7 } }

\* -------------------------------------------------- the watcher's state
\* File names of the inbox (p.name): p.stem and p.suffix.
Names ==
    { [stem |-> "a", suffix |-> ".mp4"], [stem |-> "b", suffix |-> ".MOV"],
      [stem |-> "n", suffix |-> ".txt"] }

\* exts of main_loop.
exts == {".mp4", ".mov", ".mkv", ".avi", ".m4v", ".mp3", ".wav", ".flac"}

\* str.lower on the suffixes of Names.
lower(sfx) == IF sfx = ".MOV" THEN ".mov" ELSE sfx

\* An inbox entry: the file (id 0: no file of that name), its size, and
\* whether a copy still writes to it.
NoFile == [id |-> 0, size |-> 0, open |-> FALSE]

FileIds == 1..MaxFiles

\* The watcher at the start of main_loop, settings.json being f.
WatcherInit(f) ==
    [disk |-> f, data |-> WatcherDefaults, loads |-> 0,
     pc |-> "sleep", todo |-> {}, cur |-> CHOOSE n \in Names : TRUE,
     size1 |-> 0, seen |-> {},
     inbox |-> [n \in Names |-> NoFile], made |-> 0,
     runs |-> [i \in FileIds |-> 0], failed |-> {}, errors |-> {}]

\* The decoded samples: sample n of the file.
Pattern == <<30, 8000, 60, -9000, 7000, -30>>

SampleAt(n) == Pattern[(n % Len(Pattern)) + 1]

\* np.frombuffer(frame): the samples of block idx (0-based) of the file.
FrameData(idx) == [i \in 1..BlockLen |-> SampleAt(idx * BlockLen + i - 1)]

\* outdata.fill(0)
Silence == [i \in 1..BlockLen |-> 0]

\* ------------------------------------------------------------ AudioEngine
\* AudioEngine.__init__
AudioEngineInit ==
    [q |-> <<>>, stream |-> 0, stop_event |-> FALSE, paused_flag |-> FALSE,
     master_gain |-> ONE,
     eq_points |-> [k \in Bands |-> 0],
     eq_filters |-> [k \in Bands |-> set_peaking_eq(BiquadInit, k, 0)],
     gate_enabled |-> FALSE, gate_mode |-> "Gate",
     open_thr_db |-> -420, close_thr_db |-> -480, floor_db |-> -400,
     expander_ratio |-> 4000, env |-> 0, current_gain |-> ONE]

set_volume_db(a, db) == [a EXCEPT !.master_gain = db_to_gain(db)]

\* Python's list index: the band (1..5) that eq_points[idx] names, 0 when
\* the subscript raises IndexError.
EqIndex(idx) ==
    IF idx \in 0..(NBands - 1) THEN idx + 1
    ELSE IF idx \in (-NBands)..(-1) THEN idx + NBands + 1
    ELSE 0

\* set_eq_gain that builds the five filters anew from eq_points.
set_eq_gain_Rebuild(a, idx, db) ==
    LET k == EqIndex(idx)
        pts == [a.eq_points EXCEPT ![k] = db]
    IN  IF k = 0 THEN a
        ELSE [a EXCEPT !.eq_points = pts,
                       !.eq_filters = [j \in Bands |->
                                          set_peaking_eq(BiquadInit, j, pts[j])]]

\* set_eq_gain; an IndexError leaves the engine as it was.
set_eq_gain(a, idx, db) ==
    LET k == EqIndex(idx)
    IN  IF k = 0 THEN a
        ELSE [a EXCEPT !.eq_points[k] = db,
                       !.eq_filters[k] = set_peaking_eq(@, k, db)]

set_gate_enabled(a, enabled) == [a EXCEPT !.gate_enabled = enabled]

set_gate_mode(a, mode) ==
    [a EXCEPT !.gate_mode = IF mode = "Expander" THEN "Expander" ELSE "Gate"]

set_gate_open_thr(a, db) == [a EXCEPT !.open_thr_db = db]

set_gate_close_thr(a, db) == [a EXCEPT !.close_thr_db = db]

set_gate_floor(a, db) == [a EXCEPT !.floor_db = db]

set_expander_ratio(a, r) == [a EXCEPT !.expander_ratio = r]

\* start() without its test of self.stream.
start_NoGuard(a, sid) ==
    [a EXCEPT !.stop_event = FALSE, !.paused_flag = FALSE, !.stream = sid]

\* start(): sid is the stream sd.OutputStream would create.
start(a, sid) ==
    IF a.stream # 0 THEN a
    ELSE [a EXCEPT !.stop_event = FALSE, !.paused_flag = FALSE, !.stream = sid]

pause(a, flag) == [a EXCEPT !.paused_flag = flag]

\* stop(), first statement: stop_event.set().
stop_signal(a) == [a EXCEPT !.stop_event = TRUE]

\* stop(), the rest: the stream stopped, closed and forgotten, the queue
\* cleared.
stop_close(a) == [a EXCEPT !.stream = 0, !.q = <<>>]

\* App._apply_settings_to_ui_and_engine
ApplySettings(a, s) ==
    LET a1 == set_volume_db(a, s.volume_db)
        a2 == set_eq_gain(a1, 0, s.eq[1])
        a3 == set_eq_gain(a2, 1, s.eq[2])
        a4 == set_eq_gain(a3, 2, s.eq[3])
        a5 == set_eq_gain(a4, 3, s.eq[4])
        a6 == set_eq_gain(a5, 4, s.eq[5])
        a7 == set_gate_mode(a6, s.gate_mode)
        a8 == set_gate_open_thr(a7, s.open_thr_db)
        a9 == set_gate_close_thr(a8, s.close_thr_db)
        a10 == set_gate_floor(a9, s.floor_db)
        a11 == set_expander_ratio(a10, s.expander_ratio)
    IN  set_gate_enabled(a11, s.gate_enabled)

\* ------------------------------------------------------------ queue.Queue
\* An item of q: a PCM block (kind "frame", block idx of the file), the
\* end-of-stream marker None (kind "eos") or the ("__ERROR__", msg) tuple
\* (kind "error"); rdr is the reader that put it and tk the number of its put.
Item(kind, r, idx, tk) == [kind |-> kind, rdr |-> r, idx |-> idx, tk |-> tk]

\* A queue made without maxsize: put never blocks.
q_full_Never(qu) == FALSE

\* Queue.put blocks while the queue holds maxsize items.
q_full(qu) == Len(qu) >= QueueMax

\* Queue.put, once there is room.
q_put(qu, item) == Append(qu, item)

\* Queue.get on a queue that holds an item: the item and the queue left.
q_get(qu) == [item |-> Head(qu), q |-> Tail(qu)]

\* --------------------------------------------------------------- callback
\* The values _gate_or_expander reads before its loop.
GateLocals(a) ==
    [atk |-> attack_open, rel |-> release_close,
     open_thr |-> a.open_thr_db, close_thr |-> a.close_thr_db,
     floor_lin |-> db_to_gain(a.floor_db),
     ratio |-> Max(1001, a.expander_ratio),
     env |-> a.env, g |-> a.current_gain]

NoLocals == [atk |-> 0, rel |-> 0, open_thr |-> 0, close_thr |-> 0,
             floor_lin |-> 0, ratio |-> 0, env |-> 0, g |-> 0]

\* The engine's parameters and DSP state, without queue, stream and events.
Snap(a) == [a EXCEPT !.q = <<>>, !.stream = 0, !.stop_event = FALSE,
                     !.paused_flag = FALSE]

\* The callback between invocations.  buf, i and loc are its locals; src is
\* the block it dequeued, snap the engine as it was then, and dirty whether a
\* setter ran since.
CbIdle == [pc |-> "idle", buf |-> <<>>, i |-> 0, loc |-> NoLocals,
           src |-> <<>>, snap |-> Snap(AudioEngineInit), dirty |-> FALSE]

\* App.__init__ with settings.json being f and a file of n blocks to play;
\* the watcher starts beside it.
InitFrom(f, n) ==
    /\ audio = ApplySettings(AudioEngineInit, SettingsManagerLoad(f))
    /\ app = [reader |-> 0, current_path |-> FALSE, monitor_running |-> FALSE,
              settings |-> SettingsManagerLoad(f)]
    /\ w = WatcherInit(f)
    /\ ctl = [pc |-> "idle", op |-> "none"]
    /\ rd = [r \in Readers |-> [pc |-> "new", got |-> 0]]
    /\ cb = CbIdle
    /\ outdata = <<>>
    /\ pa = [open |-> {}, made |-> 0]
    /\ file = n
    /\ nput = 0
    /\ nsets = 0
    /\ last = [op |-> "none", idx |-> 0, db |-> 0, raised |-> FALSE]
    /\ ended = FALSE

\* The same when settings.json holds the complete record s.
InitWith(s, n) == InitFrom(SettingsFile("record", s), n)

Init == \E s \in SettingsSet : InitWith(s, MaxFrames)

\* PortAudio calls _callback with a fresh outdata while the stream is open.
CbInvoke ==
    /\ cb.pc = "idle"
    /\ audio.stream # 0
    /\ cb' = [cb EXCEPT !.pc = "enter"]
    /\ outdata' = <<>>
    /\ UNCHANGED <<audio, app, ctl, rd, pa, file, w, nput, nsets, last, ended>>

\* _callback without the paused test.
CbPaused_IgnoresFlag ==
    /\ cb.pc = "enter"
    /\ outdata' = outdata
    /\ cb' = [cb EXCEPT !.pc = "get"]
    /\ UNCHANGED <<audio, app, ctl, rd, pa, file, w, nput, nsets, last, ended>>

\* _callback, lines 339-341: the paused test.
CbPaused ==
    /\ cb.pc = "enter"
    /\ IF audio.paused_flag
       THEN outdata' = Silence /\ cb' = CbIdle
       ELSE outdata' = outdata /\ cb' = [cb EXCEPT !.pc = "get"]
    /\ UNCHANGED <<audio, app, ctl, rd, pa, file, w, nput, nsets, last, ended>>

\* _callback without the test of line 347: None and the error tuple are
\* processed as a block of zeros.
CbGet_EndAsBlock ==
    /\ cb.pc = "get"
    /\ audio.q # <<>>
    /\ LET a == [audio EXCEPT !.q = Tail(@)]
           x == IF Head(audio.q).kind = "frame"
                THEN [i \in 1..BlockLen |-> SampleAt(Head(audio.q).idx * BlockLen + i - 1)]
                ELSE [i \in 1..BlockLen |-> 0]
       IN  /\ audio' = a
           /\ cb' = [cb EXCEPT !.pc = "gatechk", !.buf = x, !.src = x,
                               !.snap = [a EXCEPT !.q = <<>>, !.stream = 0,
                                                  !.stop_event = FALSE,
                                                  !.paused_flag = FALSE]]
    /\ UNCHANGED <<outdata, ended, app, ctl, rd, pa, file, w, nput, nsets, last>>

\* _callback, lines 342-350: q.get returned an item.
CbGet ==
    /\ cb.pc = "get"
    /\ audio.q # <<>>
    /\ LET g == q_get(audio.q)
           a == [audio EXCEPT !.q = g.q]
       IN  /\ audio' = a
           /\ IF g.item.kind = "frame"
              THEN /\ cb' = [cb EXCEPT !.pc = "gatechk",
                                       !.buf = FrameData(g.item.idx),
                                       !.src = FrameData(g.item.idx),
                                       !.snap = Snap(a)]
                   /\ outdata' = outdata
                   /\ ended' = ended
              ELSE /\ cb' = CbIdle
                   /\ outdata' = Silence
                   /\ ended' = TRUE
    /\ UNCHANGED <<app, ctl, rd, pa, file, w, nput, nsets, last>>

\* _callback, lines 344-346: q.get timed out on an empty queue.
CbTimeout ==
    /\ cb.pc = "get"
    /\ audio.q = <<>>
    /\ outdata' = Silence
    /\ cb' = CbIdle
    /\ UNCHANGED <<audio, app, ctl, rd, pa, file, w, nput, nsets, last, ended>>

\* _callback line 352 and _gate_or_expander lines 290-298.
CbGateEnter ==
    /\ cb.pc = "gatechk"
    /\ IF audio.gate_enabled
       THEN cb' = [cb EXCEPT !.pc = "gate", !.i = 1, !.loc = GateLocals(audio)]
       ELSE cb' = [cb EXCEPT !.pc = "eq"]
    /\ UNCHANGED <<audio, app, ctl, rd, outdata, pa, file, w, nput, nsets, last, ended>>

\* _gate_or_expander, one iteration of the loop (lines 300-331), and after
\* the last one lines 333-334.
CbGateSample ==
    /\ cb.pc = "gate"
    /\ LET r   == GateSample(cb.loc, audio.gate_mode, cb.buf[cb.i])
           loc == [cb.loc EXCEPT !.env = r.env, !.g = r.g]
           buf == [cb.buf EXCEPT ![cb.i] = r.y]
       IN  IF cb.i < BlockLen
           THEN /\ cb' = [cb EXCEPT !.buf = buf, !.loc = loc, !.i = cb.i + 1]
                /\ audio' = audio
           ELSE /\ cb' = [cb EXCEPT !.buf = buf, !.loc = NoLocals, !.i = 0,
                                    !.pc = "eq"]
                /\ audio' = [audio EXCEPT !.env = r.env, !.current_gain = r.g]
    /\ UNCHANGED <<app, ctl, rd, outdata, pa, file, w, nput, nsets, last, ended>>

\* _callback lines 355-356 from band k on: every filter of eq_filters, in
\* list order, runs process_inplace on the block; gives the block and the
\* filters with their new z1, z2.
RECURSIVE EqRun(_, _, _)
EqRun(filters, x, k) ==
    IF k > NBands THEN [x |-> x, filters |-> filters]
    ELSE LET r == process_inplace(filters[k], x)
         IN  EqRun([filters EXCEPT ![k].z1 = r.z1, ![k].z2 = r.z2], r.x, k + 1)

\* _callback lines 355-356.  The loop is one step: a setter that lands
\* between two bands acts as one landing before the loop (a later band) or
\* after it (an earlier one).
CbEq ==
    /\ cb.pc = "eq"
    /\ LET r == EqRun(audio.eq_filters, cb.buf, 1)
       IN  /\ audio' = [audio EXCEPT !.eq_filters = r.filters]
           /\ cb' = [cb EXCEPT !.buf = r.x, !.pc = "out"]
    /\ UNCHANGED <<app, ctl, rd, outdata, pa, file, w, nput, nsets, last, ended>>

\* Lines 358-360 without np.clip.
Deliver_NoClip(a, x) == [i \in 1..Len(x) |-> Mul(a.master_gain, x[i])]

\* buf *= master_gain; np.clip; outdata[:] = buf (lines 358-360) on block x.
Deliver(a, x) == [i \in 1..Len(x) |-> Clip(Mul(a.master_gain, x[i]))]

CbOut ==
    /\ cb.pc = "out"
    /\ outdata' = Deliver(audio, cb.buf)
    /\ cb' = CbIdle
    /\ UNCHANGED <<audio, app, ctl, rd, pa, file, w, nput, nsets, last, ended>>

Callback ==
    CbInvoke \/ CbPaused \/ CbGet \/ CbTimeout \/ CbGateEnter \/ CbGateSample
    \/ CbEq \/ CbOut

\* -------------------------------------------------------- FFmpegPCMReader
\* run(), lines 114-123: Popen succeeds, or raises and the error tuple is due.
RdPopen(r) ==
    /\ rd[r].pc = "popen"
    /\ \E ok \in BOOLEAN :
          rd' = [rd EXCEPT ![r].pc = IF ok THEN "loop" ELSE "err"]
    /\ UNCHANGED <<audio, app, ctl, cb, outdata, pa, file, w, nput, nsets, last, ended>>

\* run(), line 122: out_q.put(("__ERROR__", str(e))); return.
RdPutError(r) ==
    /\ rd[r].pc = "err"
    /\ ~q_full(audio.q)
    /\ audio' = [audio EXCEPT !.q = q_put(@, Item("error", r, 0, nput + 1))]
    /\ nput' = nput + 1
    /\ rd' = [rd EXCEPT ![r].pc = "done"]
    /\ UNCHANGED <<app, ctl, cb, outdata, pa, file, w, nsets, last, ended>>

\* run(), lines 127-130: the loop test and the paused test.
RdLoop(r) ==
    /\ rd[r].pc = "loop"
    /\ rd' = [rd EXCEPT ![r].pc = IF audio.stop_event THEN "fin"
                                  ELSE IF audio.paused_flag THEN "loop"
                                  ELSE "read"]
    /\ UNCHANGED <<audio, app, ctl, cb, outdata, pa, file, w, nput, nsets, last, ended>>

\* run(), lines 131-137: stdout.read returns no data (the end of the
\* stream), or data that completes the next block of the stream.  Reads that
\* leave leftover short of a block only repeat the tests of RdLoop, and got
\* counts the blocks cut from leftover so far.
RdRead(r) ==
    /\ rd[r].pc = "read"
    /\ rd' = IF rd[r].got = file
             THEN [rd EXCEPT ![r].pc = "fin"]
             ELSE [rd EXCEPT ![r].got = @ + 1, ![r].pc = "put"]
    /\ UNCHANGED <<audio, app, ctl, cb, outdata, pa, file, w, nput, nsets, last, ended>>

\* run(), line 138: out_q.put(frame).
RdPut(r) ==
    /\ rd[r].pc = "put"
    /\ ~q_full(audio.q)
    /\ audio' = [audio EXCEPT
                   !.q = q_put(@, Item("frame", r, rd[r].got - 1, nput + 1))]
    /\ nput' = nput + 1
    /\ rd' = [rd EXCEPT ![r].pc = "loop"]
    /\ UNCHANGED <<app, ctl, cb, outdata, pa, file, w, nsets, last, ended>>

\* run(), lines 139-147: the finally clause, ending in out_q.put(None).
RdFinish(r) ==
    /\ rd[r].pc = "fin"
    /\ ~q_full(audio.q)
    /\ audio' = [audio EXCEPT !.q = q_put(@, Item("eos", r, 0, nput + 1))]
    /\ nput' = nput + 1
    /\ rd' = [rd EXCEPT ![r].pc = "done"]
    /\ UNCHANGED <<app, ctl, cb, outdata, pa, file, w, nsets, last, ended>>

Reader ==
    \E r \in Readers :
        RdPopen(r) \/ RdPutError(r) \/ RdLoop(r) \/ RdRead(r) \/ RdPut(r)
        \/ RdFinish(r)

\* Thread.is_alive()
is_alive(r) == rd[r].pc \notin {"new", "done"}

\* ------------------------------------------------------------ App transport
OnOpen ==
    /\ ctl.pc = "idle"
    /\ app' = [app EXCEPT !.current_path = TRUE]
    /\ UNCHANGED <<audio, ctl, rd, cb, outdata, pa, file, w, nput, nsets, last, ended>>

\* on_play, lines 783-787: start() and pause(False); _start_reader follows.
\* A run starts at most MaxReaders readers.
OnPlay ==
    /\ ctl.pc = "idle"
    /\ app.current_path
    /\ \E r \in Readers : rd[r].pc = "new"
    /\ LET a == start(audio, pa.made + 1)
       IN  /\ audio' = pause(a, FALSE)
           /\ pa' = IF a.stream # audio.stream
                    THEN [open |-> pa.open \cup {a.stream}, made |-> pa.made + 1]
                    ELSE pa
           /\ ended' = IF a.stream # audio.stream THEN FALSE ELSE ended
    /\ ctl' = [pc |-> "stop_reader", op |-> "play"]
    /\ UNCHANGED <<app, rd, cb, outdata, file, w, nput, nsets, last>>

\* on_play when sd.OutputStream raises in start(): the events are cleared,
\* no stream is kept and the exception ends the handler.
OnPlayDeviceError ==
    /\ ctl.pc = "idle"
    /\ app.current_path
    /\ audio.stream = 0
    /\ audio' = [audio EXCEPT !.stop_event = FALSE, !.paused_flag = FALSE]
    /\ UNCHANGED <<app, ctl, rd, cb, outdata, pa, file, w, nput, nsets, last, ended>>

\* _stop_reader lines 779-780, then what the handler op does next:
\* _start_reader lines 768-770 (op "play") or on_stop line 800 (op "stop").
AfterStopReader(op) ==
    /\ ctl' = [pc |-> "idle", op |-> "none"]
    /\ audio' = [audio EXCEPT !.stop_event = FALSE]
    /\ IF op = "play"
       THEN LET r == CHOOSE x \in Readers :
                        rd[x].pc = "new" /\ \A y \in Readers : rd[y].pc = "new" => x <= y
            IN  /\ rd' = [rd EXCEPT ![r].pc = "popen"]
                /\ app' = [app EXCEPT !.reader = r, !.monitor_running = TRUE]
       ELSE /\ rd' = rd
            /\ app' = [app EXCEPT !.reader = 0, !.monitor_running = FALSE]

\* _stop_reader lines 773-774: a live reader is signalled, and join follows.
StopReaderSignal ==
    /\ ctl.pc = "stop_reader"
    /\ IF app.reader # 0 /\ is_alive(app.reader)
       THEN /\ audio' = [audio EXCEPT !.stop_event = TRUE]
            /\ ctl' = [ctl EXCEPT !.pc = "join"]
            /\ UNCHANGED <<app, rd>>
       ELSE AfterStopReader(ctl.op)
    /\ UNCHANGED <<cb, outdata, pa, file, w, nput, nsets, last, ended>>

\* _stop_reader line 776: join returns, the reader ended or 0.5 s over.
StopReaderJoin ==
    /\ ctl.pc = "join"
    /\ AfterStopReader(ctl.op)
    /\ UNCHANGED <<cb, outdata, pa, file, w, nput, nsets, last, ended>>

OnPause ==
    /\ ctl.pc = "idle"
    /\ app.monitor_running
    /\ audio' = pause(audio, TRUE)
    /\ UNCHANGED <<app, ctl, rd, cb, outdata, pa, file, w, nput, nsets, last, ended>>

\* on_stop, entering AudioEngine.stop(): stop_event.set().
OnStop ==
    /\ ctl.pc = "idle"
    /\ audio' = stop_signal(audio)
    /\ ctl' = [pc |-> "engine_stop", op |-> "stop"]
    /\ UNCHANGED <<app, rd, cb, outdata, pa, file, w, nput, nsets, last, ended>>

\* AudioEngine.stop() lines 279-286: stream.stop() returns once the callback
\* is not running; the stream is closed and the queue cleared.
EngineStopClose ==
    /\ ctl.pc = "engine_stop"
    /\ audio.stream # 0 => cb.pc = "idle"
    /\ audio' = stop_close(audio)
    /\ pa' = [pa EXCEPT !.open = @ \ {audio.stream}]
    /\ ctl' = [ctl EXCEPT !.pc = "stop_reader"]
    /\ UNCHANGED <<app, rd, cb, outdata, file, w, nput, nsets, last, ended>>

Transport ==
    OnOpen \/ OnPlay \/ OnPlayDeviceError \/ StopReaderSignal \/ StopReaderJoin
    \/ OnPause \/ OnStop \/ EngineStopClose

\* ------------------------------------------------- App control handlers
\* The values the sliders and buttons are moved to.
VolumeChoices == {60}

ModeChoices == {"Gate", "Expander"}

OpenThrChoices == {-300}

CloseThrChoices == {-600}

FloorChoices == {-200}

RatioChoices == {2000}

EqGainChoices == {60}

\* The subscripts set_eq_gain is called with: on_eq_change passes 0..4, and
\* the method takes any integer.
IdxChoices == (-(NBands + 1))..(NBands + 1)

\* The callback holds a dequeued block it has not delivered yet.
InBlock == cb.pc \in {"gatechk", "gate", "eq", "out"}

\* A control handler (lines 804-839) leaving the engine as a: the Tk thread
\* runs it between transport handlers, at most MaxSets times in a run.
Tune(a, op, idx, db, raised) ==
    /\ ctl.pc = "idle"
    /\ nsets < MaxSets
    /\ audio' = a
    /\ nsets' = nsets + 1
    /\ last' = [op |-> op, idx |-> idx, db |-> db, raised |-> raised]
    /\ cb' = [cb EXCEPT !.dirty = @ \/ InBlock]
    /\ UNCHANGED <<app, ctl, rd, outdata, pa, file, w, nput, ended>>

OnVolumeChange ==
    \E db \in VolumeChoices :
        Tune(set_volume_db(audio, db), "set_volume_db", 0, db, FALSE)

OnGateToggle ==
    \E on \in BOOLEAN :
        Tune(set_gate_enabled(audio, on), "set_gate_enabled", 0, 0, FALSE)

OnGateMode ==
    \E m \in ModeChoices :
        Tune(set_gate_mode(audio, m), "set_gate_mode", 0, 0, FALSE)

OnOpenThr ==
    \E db \in OpenThrChoices :
        Tune(set_gate_open_thr(audio, db), "set_gate_open_thr", 0, db, FALSE)

OnCloseThr ==
    \E db \in CloseThrChoices :
        Tune(set_gate_close_thr(audio, db), "set_gate_close_thr", 0, db, FALSE)

OnFloor ==
    \E db \in FloorChoices :
        Tune(set_gate_floor(audio, db), "set_gate_floor", 0, db, FALSE)

OnRatio ==
    \E r \in RatioChoices :
        Tune(set_expander_ratio(audio, r), "set_expander_ratio", 0, r, FALSE)

\* set_eq_gain(idx, db), from on_eq_change or any other caller.
SetEqGain ==
    \E idx \in IdxChoices, db \in EqGainChoices :
        Tune(set_eq_gain(audio, idx, db), "set_eq_gain", idx, db, EqIndex(idx) = 0)

Setters ==
    OnVolumeChange \/ OnGateToggle \/ OnGateMode \/ OnOpenThr \/ OnCloseThr
    \/ OnFloor \/ OnRatio \/ SetEqGain

\* ------------------------------------------ set_eq_gain, statement by
\* statement.  The Tk thread can be switched out between two statements of
\* set_peaking_eq, so the callback can run between the five assignments of
\* lines 72-76.
\* The position after each of the assignments of lines 72-76.
AfterWrite == [b0 |-> "eqw_b1", b1 |-> "eqw_b2", b2 |-> "eqw_a1",
               a1 |-> "eqw_a2", a2 |-> "idle"]

WriteAt == [eqw_b1 |-> "b1", eqw_b2 |-> "b2", eqw_a1 |-> "a1", eqw_a2 |-> "a2"]

\* The filter biq with coefficient c as set_peaking_eq computes it for
\* band k at gain_db.
WriteCoef(biq, k, gain_db, c) ==
    [biq EXCEPT ![c] = set_peaking_eq(biq, k, gain_db)[c]]

\* on_eq_change(idx): set_eq_gain line 228 and set_peaking_eq up to line 72.
EqGainStart ==
    /\ ctl.pc = "idle"
    /\ nsets < MaxSets
    /\ \E idx \in 0..(NBands - 1), db \in EqGainChoices :
          /\ audio' = [audio EXCEPT
                         !.eq_points[idx + 1] = db,
                         !.eq_filters[idx + 1] = WriteCoef(@, idx + 1, db, "b0")]
          /\ last' = [op |-> "set_eq_gain", idx |-> idx, db |-> db,
                      raised |-> FALSE]
    /\ ctl' = [pc |-> AfterWrite["b0"], op |-> "tune"]
    /\ nsets' = nsets + 1
    /\ cb' = [cb EXCEPT !.dirty = @ \/ InBlock]
    /\ UNCHANGED <<app, rd, outdata, pa, file, w, nput, ended>>

\* One of lines 73-76.
EqGainWrite ==
    /\ ctl.pc \in DOMAIN WriteAt
    /\ LET c == WriteAt[ctl.pc]
           k == last.idx + 1
       IN  /\ audio' = [audio EXCEPT
                          !.eq_filters[k] = WriteCoef(@, k, last.db, c)]
           /\ ctl' = [pc |-> AfterWrite[c],
                      op |-> IF c = "a2" THEN "none" ELSE "tune"]
    /\ UNCHANGED <<app, rd, cb, outdata, pa, file, w, nput, nsets, last, ended>>

\* ------------------------------------------------------ headless watcher
\* The engine, the transport and the callback do not move.
AppIdle ==
    UNCHANGED <<audio, app, ctl, rd, cb, outdata, pa, file, nput, nsets, last,
                ended>>

\* Somebody starts copying a file into the inbox, or moves one in whole.
FileArrives ==
    /\ w.made < MaxFiles
    /\ \E n \in Names, open \in BOOLEAN :
          /\ w.inbox[n].id = 0
          /\ w' = [w EXCEPT !.made = @ + 1,
                            !.inbox[n] = [id |-> w.made + 1, size |-> 1,
                                          open |-> open]]
    /\ AppIdle

\* The copy writes on.
FileGrows ==
    /\ \E n \in Names :
          /\ w.inbox[n].open
          /\ w.inbox[n].size < MaxSize
          /\ w' = [w EXCEPT !.inbox[n].size = @ + 1]
    /\ AppIdle

\* The copy is complete.
FileClosed ==
    /\ \E n \in Names :
          /\ w.inbox[n].open
          /\ w' = [w EXCEPT !.inbox[n].open = FALSE]
    /\ AppIdle

\* main_loop line 164: INBOX_DIR.iterdir() lists the folder.
WScan ==
    /\ w.pc = "sleep"
    /\ w' = [w EXCEPT !.pc = "next",
                      !.todo = {n \in Names : w.inbox[n].id # 0}]
    /\ AppIdle

\* main_loop lines 164-179: the next entry p, the three tests and the first
\* stat; line 223 when the listing is exhausted.
WNext ==
    /\ w.pc = "next"
    /\ IF w.todo = {}
       THEN w' = [w EXCEPT !.pc = "sleep"]
       ELSE \E p \in w.todo :
               IF \/ w.inbox[p].id = 0
                  \/ lower(p.suffix) \notin exts
                  \/ p \in w.seen
               THEN w' = [w EXCEPT !.todo = @ \ {p}]
               ELSE w' = [w EXCEPT !.todo = @ \ {p}, !.pc = "stat2",
                                   !.cur = p, !.size1 = w.inbox[p].size]
    /\ AppIdle

\* main_loop lines 175-197: the second stat half a second later, the size
\* test, seen.add and load_settings.
WStat2 ==
    /\ w.pc = "stat2"
    /\ IF w.inbox[w.cur].id = 0 \/ w.inbox[w.cur].size # w.size1
       THEN w' = [w EXCEPT !.pc = "next"]
       ELSE w' = [w EXCEPT !.pc = "ffmpeg", !.seen = @ \cup {w.cur},
                           !.data = load_settings(w.disk), !.loads = 1]
    /\ AppIdle

\* main_loop lines 199-219: process_one_with_ffmpeg runs FFmpeg on the file;
\* when it raises, the file is moved to the errors folder.
WFfmpeg ==
    /\ w.pc = "ffmpeg"
    /\ LET id == w.inbox[w.cur].id
       IN  \E ok \in BOOLEAN :
              IF ok
              THEN w' = [w EXCEPT !.pc = "next", !.runs[id] = @ + 1]
              ELSE w' = [w EXCEPT !.pc = "next", !.runs[id] = @ + 1,
                                  !.failed = @ \cup {id},
                                  !.errors = @ \cup {id},
                                  !.inbox[w.cur] = NoFile]
    /\ AppIdle

\* ---------------------------------------------------------- specifications
\* The transport: every handler of the Play / Pause / Stop buttons, the
\* readers and the callback, with the parameters of the settings file.
Next == Transport \/ Reader \/ Callback

Spec == Init /\ [][Next]_vars

\* on_play on an engine that has not played yet.
FirstPlay == pa.made = 0 /\ OnPlay

\* Tuning while the file plays: one Play, then the control handlers against
\* the reader and the callback.
NextTune ==
    OnOpen \/ FirstPlay \/ StopReaderSignal \/ Setters \/ Reader \/ Callback

SpecTune == Init /\ [][NextTune]_vars

\* A file longer than the queue: one Play and Stop, with the defaults.
InitLong == InitWith(DefaultSettings, QueueMax + 1)

NextQueue ==
    OnOpen \/ FirstPlay \/ StopReaderSignal \/ StopReaderJoin \/ OnStop
    \/ EngineStopClose \/ Reader \/ CbInvoke \/ CbPaused \/ CbGet
    \/ CbTimeout \/ CbGateEnter \/ CbEq \/ CbOut

SpecQueue == InitLong /\ [][NextQueue]_vars

\* Tuning the bands while a file plays, set_eq_gain statement by statement.
NextEq ==
    OnOpen \/ FirstPlay \/ StopReaderSignal \/ EqGainStart \/ EqGainWrite
    \/ Reader \/ Callback

SpecEq == Init /\ [][NextEq]_vars

\* The threads run: a reader that can take a step is scheduled, so are the
\* callback of an open stream and a handler that has started; the user is
\* free never to press a button again.
ReaderRuns(r) ==
    RdPopen(r) \/ RdPutError(r) \/ RdLoop(r) \/ RdRead(r) \/ RdPut(r)
    \/ RdFinish(r)

HandlerRuns == StopReaderSignal \/ StopReaderJoin \/ EngineStopClose

\* The callback's steps but the EQ loop, which is always able to run when
\* the callback is there and always leaves: its fairness is that the
\* callback is again and again somewhere else.
CallbackRuns ==
    CbInvoke \/ CbPaused \/ CbGet \/ CbTimeout \/ CbGateEnter \/ CbOut

Scheduling ==
    /\ \A r \in Readers : WF_vars(ReaderRuns(r))
    /\ WF_vars(HandlerRuns)
    /\ WF_vars(CallbackRuns)
    /\ []<>(cb.pc # "eq")

SpecQueueLive == SpecQueue /\ Scheduling

\* The gate alone: the engine starts with the gate enabled, and every
\* invocation of the callback finds a block in the queue.
GateSettingsSet ==
    { [DefaultSettings EXCEPT !.gate_enabled = TRUE, !.gate_mode = m,
                              !.expander_ratio = r] :
        m \in {"Gate", "Expander"}, r \in {2000, 4000} }

\* Sample values: silence, one below close_thr, full-scale ones.
Levels == {0, 60, 8000, -9000}

\* The blocks fed: a first sample, then a level held to the end of the block.
GateBlocks ==
    { [i \in 1..BlockLen |-> IF i = 1 THEN a ELSE b] : a \in Levels, b \in Levels }

InitGate == \E s \in GateSettingsSet : InitWith(s, MaxBlocks)

\* _callback lines 336-350 when q.get returns at once with a frame that
\* holds block x; nput counts the frames.
GateFeed ==
    /\ cb.pc = "idle"
    /\ nput < MaxBlocks
    /\ \E x \in GateBlocks :
          cb' = [cb EXCEPT !.pc = "gatechk", !.buf = x, !.src = x,
                           !.snap = Snap(audio)]
    /\ nput' = nput + 1
    /\ UNCHANGED <<audio, app, ctl, rd, outdata, pa, file, w, nsets, last, ended>>

NextGate == GateFeed \/ CbGateEnter \/ CbGateSample \/ CbEq \/ CbOut

SpecGate == InitGate /\ [][NextGate]_vars

\* The watcher alone, beside a tuner that was opened and left idle.
InitWatch == \E f \in SettingsFiles : InitFrom(f, MaxFrames)

NextWatch ==
    FileArrives \/ FileGrows \/ FileClosed \/ WScan \/ WNext \/ WStat2
    \/ WFfmpeg

SpecWatch == InitWatch /\ [][NextWatch]_vars

\* ------------------------------------------------------------------ claims
\* AudioEngine.stop() has just returned inside on_stop.
StopReturned == ctl.op = "stop" /\ ctl.pc = "stop_reader"

\* C1: after AudioEngine.stop() returns, the gate state is that of a new
\* engine: env = 0.0 and current_gain = 1.0.
C1_StopResetsGate ==
    StopReturned => audio.env = 0 /\ audio.current_gain = ONE

\* on_stop has completed and no Play has been pressed since.
Stopped == ctl.pc = "idle" /\ pa.made > 0 /\ ~app.monitor_running

\* C2: once on_stop (stop() then _stop_reader()) has completed, the queue
\* is empty, and it stays empty until the next play.
C2_StopLeavesQueueEmpty == Stopped => audio.q = <<>>

\* _gate_or_expander on block x from sample i on, with the mode held at mode.
RECURSIVE GateRun(_, _, _, _)
GateRun(loc, mode, x, i) ==
    IF i > Len(x) THEN [x |-> x, env |-> loc.env, g |-> loc.g]
    ELSE LET r == GateSample(loc, mode, x[i])
         IN  GateRun([loc EXCEPT !.env = r.env, !.g = r.g], mode,
                     [x EXCEPT ![i] = r.y], i + 1)

\* The block x after the gate stage of an engine whose parameters stay as
\* they are in a.
Gated(a, x) ==
    IF a.gate_enabled THEN GateRun(GateLocals(a), a.gate_mode, x, 1).x ELSE x

\* The block x after band k of an engine whose parameters stay as in a.
Band(a, k, x) == process_inplace(a.eq_filters[k], x).x

\* The output of block x in the order gate, bands 1 to 5 (100, 300, 1000,
\* 3000, 8000 Hz), master gain, clip, all with the parameters of a.
Pipeline(a, x) ==
    LET y == Band(a, 5, Band(a, 4, Band(a, 3, Band(a, 2, Band(a, 1, Gated(a, x))))))
    IN  [i \in 1..Len(x) |-> Max(-ONE, Min(ONE, Mul(a.master_gain, y[i])))]

\* env and current_gain after the gate stage of block x, parameters as in a.
GateAfter(a, x) ==
    IF a.gate_enabled
    THEN LET r == GateRun(GateLocals(a), a.gate_mode, x, 1) IN <<r.env, r.g>>
    ELSE <<a.env, a.current_gain>>

\* C3: a setter called while the callback processes a block does not change
\* how that block is processed: what the callback is about to deliver is the
\* block processed with the parameters the engine had when it was dequeued.
C3_SetterTakesEffectNextBlock ==
    cb.pc = "out" =>
        /\ Deliver(audio, cb.buf) = Pipeline(cb.snap, cb.src)
        /\ <<audio.env, audio.current_gain>> = GateAfter(cb.snap, cb.src)

\* max(0, min(4, idx))
ClampIdx(idx) == Max(0, Min(NBands - 1, idx))

\* C4: set_eq_gain(idx, db) completes without error for every integer idx
\* and updates the band at max(0, min(4, idx)).
C4_EqIndexClamped ==
    last.op = "set_eq_gain" =>
        ~last.raised /\ audio.eq_points[ClampIdx(last.idx) + 1] = last.db

\* C5: once the callback has dequeued None or an error tuple, no later
\* invocation dequeues a block until the engine is stopped and started again.
C5_NoPullAfterEnd == ended => ~InBlock

\* The callback takes the step that leaves position pc.
CbLeaves(pc) == cb.pc = pc /\ cb'.pc # pc

\* C6: an invocation that finds paused_flag set delivers a block of zeros and
\* leaves the engine (queue, env, current_gain, every z1 and z2) as it was;
\* one that finds it clear goes on to q.get, which takes the head of a
\* queue that holds an item.
C6_PausedCallbackSilent ==
    [][ /\ CbLeaves("enter") =>
              IF audio.paused_flag
              THEN cb'.pc = "idle" /\ outdata' = Silence /\ audio' = audio
              ELSE cb'.pc = "get"
        /\ (CbLeaves("get") /\ audio.q # <<>>) => audio'.q = Tail(audio.q)
      ]_vars

C6_Witness ==
    /\ cb.pc = "enter"
    /\ audio.paused_flag
    /\ audio.q # <<>>
    /\ audio.env # 0
    /\ audio.eq_filters[1].z1 # 0

\* on_play calls start() on an engine whose stream is open.
StartOnOpenStream == ctl.pc = "idle" /\ ctl'.op = "play" /\ audio.stream # 0

\* C7: start() on an engine whose stream is open changes nothing (stream,
\* stop_event, paused_flag, queue) and opens no stream, and at most one
\* output stream is ever open: the one the engine holds.
C7_StartIdempotent ==
    /\ [](/\ Cardinality(pa.open) <= 1
          /\ pa.open = IF audio.stream = 0 THEN {} ELSE {audio.stream}
          /\ audio.stream # 0 => start(audio, pa.made + 1) = audio)
    /\ [][ StartOnOpenStream =>
              /\ pa' = pa
              /\ audio'.stream = audio.stream
              /\ audio'.stop_event = audio.stop_event
              /\ audio'.q = audio.q ]_vars

\* Play pressed again while the first reader's stream plays: on_play has
\* called start() and is about to replace the reader.
C7_Witness ==
    /\ ctl.op = "play"
    /\ ctl.pc = "stop_reader"
    /\ app.reader # 0
    /\ pa.made = 1
    /\ audio.stream # 0
    /\ audio.q # <<>>

\* C8: the queue never holds more than maxsize items; a put completes only
\* when there is room and appends its item, dropping none; and a get removes
\* the item that was put before all the others in the queue.
C8_QueueBoundedFifo ==
    /\ [](/\ Len(audio.q) <= QueueMax
          /\ \A i \in 1..(Len(audio.q) - 1) : audio.q[i].tk < audio.q[i + 1].tk)
    /\ [][ /\ nput' # nput =>
                 /\ Len(audio.q) < QueueMax
                 /\ Len(audio'.q) = Len(audio.q) + 1
                 /\ \A i \in 1..Len(audio.q) : audio'.q[i] = audio.q[i]
                 /\ audio'.q[Len(audio'.q)].tk = nput'
           /\ (CbLeaves("get") /\ audio.q # <<>>) =>
                 /\ Len(audio'.q) = Len(audio.q) - 1
                 /\ \A i \in 1..Len(audio'.q) :
                       /\ audio'.q[i] = audio.q[i + 1]
                       /\ audio.q[1].tk < audio'.q[i].tk
         ]_vars

\* The queue is full and a reader waits in put.
C8_Witness ==
    /\ Len(audio.q) = QueueMax
    /\ \E r \in Readers : rd[r].pc = "put"

\* C9: nothing holds an invocation at the paused test, and q.get never holds
\* it either (an item is taken, or the timeout ends the wait on an empty
\* queue); and when the queue stayed empty or the
\* item is None or an error tuple, the callback returns a block of zeros
\* with env, current_gain and every biquad as they were.
C9_SilentPaths ==
    /\ [](/\ cb.pc = "enter" => ENABLED CbPaused
          /\ cb.pc = "get" => ENABLED (CbGet \/ CbTimeout))
    /\ [][ (CbLeaves("get") /\ (audio.q = <<>> \/ Head(audio.q).kind # "frame")) =>
              /\ cb'.pc = "idle"
              /\ outdata' = Silence
              /\ audio'.env = audio.env
              /\ audio'.current_gain = audio.current_gain
              /\ audio'.eq_filters = audio.eq_filters ]_vars

C9_Witness ==
    /\ cb.pc = "get"
    /\ audio.q # <<>>
    /\ Head(audio.q).kind # "frame"
    /\ audio.env # 0
    /\ audio.eq_filters[1].z1 # 0

\* C10: every sample delivered lies in [-1, 1], and a block whose processing
\* no setter interrupted is delivered as gate (if enabled), then the bands
\* 100, 300, 1000, 3000, 8000 Hz, then master gain, then clip make it.
C10_FixedOrderClipped ==
    /\ [](\A i \in 1..Len(outdata) : outdata[i] \in (-ONE)..ONE)
    /\ [][ (cb.pc = "out" /\ cb'.pc = "idle" /\ ~cb.dirty) =>
              outdata' = Pipeline(cb.snap, cb.src) ]_vars

\* An undisturbed gated block about to be delivered, one sample of it
\* beyond full scale.
C10_Witness ==
    /\ cb.pc = "out"
    /\ ~cb.dirty
    /\ cb.snap.gate_enabled
    /\ \E i \in 1..Len(cb.buf) : Abs(Mul(audio.master_gain, cb.buf[i])) > ONE

\* env and g of the gate as the callback c and the engine a hold them: the
\* loop's locals inside _gate_or_expander, the engine's fields outside.
GateEnv(c, a) == IF c.pc = "gate" THEN c.loc.env ELSE a.env

GateG(c, a) == IF c.pc = "gate" THEN c.loc.g ELSE a.current_gain

\* The gain after one sample with target t: fast blend up, slow blend down.
Smooth(g, t) ==
    IF t > g THEN RDiv(9 * g + t, 10) ELSE RDiv(98 * g + 2 * t, 100)

\* The level e lies strictly between the thresholds of loc.
InDeadZone(loc, e) == loc.close_thr < e /\ e < loc.open_thr

\* C11: in Gate mode each sample moves the gain toward 1.0 when the envelope
\* level is at or above open_thr, toward floor_lin when it is at or below
\* close_thr, and toward the gain itself otherwise, so that a sample whose
\* envelope level is strictly between the thresholds leaves the gain as it
\* was.
C11_GateDeadZoneFrozen ==
    [][ (cb.pc = "gate" /\ audio.gate_mode = "Gate") =>
          LET e == EnvDb(GateEnv(cb', audio'))
              g == cb.loc.g
              t == IF e >= cb.loc.open_thr THEN ONE
                   ELSE IF e <= cb.loc.close_thr THEN cb.loc.floor_lin
                   ELSE g
          IN  /\ GateG(cb', audio') = Smooth(g, t)
              /\ InDeadZone(cb.loc, e) => GateG(cb', audio') = g
      ]_vars

\* Gate mode, a sample just processed in the dead zone, the gain held
\* between the floor and 1.0.
C11_Witness ==
    /\ cb.pc = "gate"
    /\ cb.i > 1
    /\ audio.gate_mode = "Gate"
    /\ InDeadZone(cb.loc, EnvDb(cb.loc.env))
    /\ cb.loc.floor_lin < cb.loc.g
    /\ cb.loc.g < ONE

\* Positions of the ratio slider.
Ratios == {1100, 2000, 4000, 8000}

\* The expander target at level e with expander_ratio set to r.
TargetAtRatio(r, e) ==
    ExpanderTarget(GateLocals(set_expander_ratio(audio, r)), e)

\* C12: in Expander mode, at an envelope level strictly between close_thr
\* and open_thr, a larger ratio gives a strictly smaller target gain (unless
\* the floor is reached), and the target gain is at most 1.0.
C12_ExpanderRatioMonotone ==
    (/\ cb.pc = "gate"
     /\ cb.i > 1
     /\ audio.gate_mode = "Expander"
     /\ InDeadZone(cb.loc, EnvDb(cb.loc.env)))
    => LET e == EnvDb(cb.loc.env)
       IN  \A r1 \in Ratios, r2 \in Ratios :
              r1 < r2 =>
                 /\ TargetAtRatio(r1, e) <= ONE
                 /\ TargetAtRatio(r2, e) <= ONE
                 /\ \/ TargetAtRatio(r2, e) < TargetAtRatio(r1, e)
                    \/ TargetAtRatio(r2, e) = cb.loc.floor_lin

\* C19: with floor_db <= 0 the smoothed gain stays between floor_lin and
\* 1.0, in both modes and whatever the samples: the gate never amplifies and
\* never attenuates below the floor.
C19_GainWithinFloorAndOne ==
    audio.floor_db <= 0 =>
        /\ db_to_gain(audio.floor_db) <= GateG(cb, audio)
        /\ GateG(cb, audio) <= ONE

\* _stop_reader has set stop_event for the live reader r and waits in join.
StopSignalled(r) == ctl.pc = "join" /\ app.reader = r

\* C13: once the stop signal is set for a reader, that reader's thread
\* ends, whatever it was blocked in and however the join timed out.
C13_ReaderTerminates ==
    \A r \in Readers : StopSignalled(r) ~> (rd[r].pc = "done")

\* The value field k has after loading the file f, the built-in default
\* being d: the persisted value if the record holds the field.
Persisted(f, k, d) ==
    IF f.kind = "record" /\ k \in DOMAIN f.rec THEN f.rec[k] ELSE d

\* C14: after loading, every settings field holds the persisted value when
\* the file is a record with that field, and the built-in default when the
\* field or the file is missing or the file cannot be read or parsed; this
\* for SettingsManager.load and for the watcher's load_settings, whose
\* defaults are the same.
C14_LoadFallsBackPerField ==
    \A k \in Fields :
        /\ SettingsManagerInit[k] = WatcherDefaults[k]
        /\ app.settings[k] = Persisted(w.disk, k, DefaultSettings[k])
        /\ w.loads > 0 => w.data[k] = Persisted(w.disk, k, DefaultSettings[k])

\* Both loaders have read a record that holds some fields and lacks others.
C14_Witness ==
    /\ w.loads > 0
    /\ w.disk.kind = "record"
    /\ \E k \in Fields : k \in DOMAIN w.disk.rec
    /\ \E k \in Fields : k \notin DOMAIN w.disk.rec

\* A control handler has just made the engine call op, which returned.
Called(op) == nsets' = nsets + 1 /\ last'.op = op /\ ~last'.raised

\* The engine a without its bands.
NoBands(a) == [a EXCEPT !.eq_points = <<>>, !.eq_filters = <<>>]

\* C15: a set_eq_gain call on band k stores the gain of band k and the five
\* coefficients of that gain in filter k, and changes nothing else: not the
\* gain or the coefficients of another band, not z1 or z2 of any filter,
\* not a gate parameter, env or current_gain.
C15_SetEqGainTouchesOneBand ==
    [][ Called("set_eq_gain") =>
          LET k == EqIndex(last'.idx)
          IN  /\ audio'.eq_points[k] = last'.db
              /\ audio'.eq_filters[k] =
                     set_peaking_eq(audio.eq_filters[k], k, last'.db)
              /\ audio'.eq_filters[k].z1 = audio.eq_filters[k].z1
              /\ audio'.eq_filters[k].z2 = audio.eq_filters[k].z2
              /\ \A j \in Bands \ {k} :
                     /\ audio'.eq_points[j] = audio.eq_points[j]
                     /\ audio'.eq_filters[j] = audio.eq_filters[j]
              /\ NoBands(audio') = NoBands(audio)
      ]_vars

\* set_eq_gain has returned on a band whose filter holds state from an
\* earlier block, another band being tuned as well.
C15_Witness ==
    /\ last.op = "set_eq_gain"
    /\ ~last.raised
    /\ LET k == EqIndex(last.idx)
       IN  /\ audio.eq_filters[k].z1 # 0
           /\ audio.eq_filters[k].b0 # ONE
           /\ \E j \in Bands \ {k} : audio.eq_points[j] # 0 /\ audio.eq_filters[j].z1 # 0

\* The file that now has the name n has been run through FFmpeg, or the
\* watcher is about to run it.
Handled(n) ==
    \/ w.runs[w.inbox[n].id] = 1
    \/ w.pc = "ffmpeg" /\ w.cur = n

\* C16: FFmpeg never runs twice on a file; a file the watcher skips as seen
\* is one it has run FFmpeg on, so that no new file is left out, whatever
\* its name; and a file whose run failed is in the errors folder, not in the
\* inbox.
C16_EachFileOnce ==
    /\ \A i \in FileIds : w.runs[i] <= 1
    /\ \A n \in Names : (w.inbox[n].id # 0 /\ n \in w.seen) => Handled(n)
    /\ w.failed \subseteq w.errors
    /\ \A n \in Names : w.inbox[n].id \notin w.failed

\* The band gains the slider can be set to, in tenths of a dB.
GainRange == (-120)..120

Coefs(biq) == <<biq.b0, biq.b1, biq.b2, biq.a1, biq.a2>>

\* The coefficients of filter k are those one set_peaking_eq call assigns.
FromOneCall(biq, k) ==
    \E g \in GainRange : Coefs(biq) = Coefs(set_peaking_eq(biq, k, g))

\* C17: when the callback runs its EQ loop, the five coefficients each
\* filter's process_inplace reads were all assigned by one set_peaking_eq
\* call.
C17_CoefficientsFromOneCall ==
    [][ (cb.pc = "eq" /\ cb'.pc = "out") =>
          \A k \in Bands : FromOneCall(audio.eq_filters[k], k) ]_vars

\* Reader r puts a frame on the queue in this step.
Enqueues(r) == rd[r].pc = "put" /\ rd'[r].pc = "loop"

\* A reader created after r has been started by _start_reader.
Replaced(r) == \E s \in Readers : s > r /\ rd[s].pc # "new"

\* C18: once _start_reader has started a new reader, no earlier reader
\* puts a frame on the queue, so the frames of two decode runs are never
\* interleaved.
C18_ReplacedReaderNeverEnqueues ==
    [][ \A r \in Readers : Enqueues(r) => ~Replaced(r) ]_vars

====
